---- MODULE Spec2Model ----
(***************************************************************************)
(* Model of the GitHub API helpers of gitbulk.base and pygithubutils.base: *)
(* the rate-limit guard check_api_limit (both implementations), session,   *)
(* connect / connect_github, repo_exists, team_exists and user_or_org.     *)
(*                                                                         *)
(* The remote service is the environment: it holds one quota per account   *)
(* (the unauthenticated one and the authenticated one), consumes it and    *)
(* resets it.  Every helper is one action that runs the whole function and *)
(* records the call (arguments, what the remote answered, result, log      *)
(* records emitted) in `last`.                                             *)
(***************************************************************************)
EXTENDS Integers, Sequences, FiniteSets, TLC

VARIABLES quota, last, failed

vars == <<quota, last, failed>>

\* ------------------------------------------------------------------ bounds
\* Rate limit of the unauthenticated account (60 per hour at GitHub).
AnonMax == 2
\* Rate limit of the authenticated account (5000 per hour at GitHub); it is
\* above the low-quota threshold so that all three tiers of the guard occur.
AuthMax == 11
\* Longest list of organizations the remote returns for a user.
MaxOrgs == 2

\* Reset timestamps (Unix epoch seconds) the remote may report.
ResetTimes == {86399, 90061}

OrgNames == {"o1", "o2"}
RepoNames == {"", "r1"}
TeamNames == {"t1", "t2"}

\* ------------------------------------------------------- Python values
None == "None"

\* Python truthiness of an optional string argument (None and "" are falsy).
Truthy(x) == x # None /\ x # ""

GithubException == "GithubException"

NoCall == [fn |-> "none", id |-> 0]

\* datetime.utcfromtimestamp: epoch seconds to a calendar value, here the
\* day number since the epoch and the second of that day.
utcfromtimestamp(t) == [day |-> t \div 86400, sec |-> t % 86400]

\* ------------------------------------------------------------ sessions
\* A session is identified by the account it talks to the remote as.
session(oauth) == IF Truthy(oauth) THEN "auth" ELSE "anon"

github_session(oauth) == IF Truthy(oauth) THEN "auth" ELSE "anon"

Sessions == {"anon", "auth"}

\* g.rate_limiting: (remaining, limit) as the remote reports it now.
rate_limiting(g) == <<quota[g].remaining, quota[g].maximum>>

\* g.rate_limiting_resettime
rate_limiting_resettime(g) == quota[g].resetTime

LogRecord(level, api_remaining, api_max, treset) ==
    [level |-> level, remaining |-> api_remaining, maximum |-> api_max,
     treset |-> treset]

\* ------------------------------------------------- the rate-limit guard
Raised(exc, msg) == [exc |-> exc, msg |-> msg, logs |-> <<>>, ret |-> None]

Returned(ret, logs) == [exc |-> "none", msg |-> <<>>, logs |-> logs, ret |-> ret]

\* Mutant: the exhaustion test never fires (api_remaining < 0).
gitbulk_check_api_limit_neverRaises(g) ==
    LET s == IF g = None THEN session(None) ELSE g
        api_limits == rate_limiting(s)
        api_remaining == api_limits[1]
        api_max == api_limits[2]
        treset == utcfromtimestamp(rate_limiting_resettime(s))
    IN  IF api_remaining < 0
        THEN Raised("ConnectionRefusedError", <<api_remaining, api_max, treset>>)
        ELSE IF api_remaining < 10
        THEN Returned(None, <<LogRecord("WARNING", api_remaining, api_max, treset)>>)
        ELSE Returned(None, <<LogRecord("INFO", api_remaining, api_max, treset)>>)

\* Mutant: the info record is not in an else branch, so it follows the warning.
gitbulk_check_api_limit_noElse(g) ==
    LET s == IF g = None THEN session(None) ELSE g
        api_limits == rate_limiting(s)
        api_remaining == api_limits[1]
        api_max == api_limits[2]
        treset == utcfromtimestamp(rate_limiting_resettime(s))
        warn == IF api_remaining < 10
                THEN <<LogRecord("WARNING", api_remaining, api_max, treset)>>
                ELSE <<>>
    IN  IF api_remaining = 0
        THEN Raised("ConnectionRefusedError", <<api_remaining, api_max, treset>>)
        ELSE Returned(None, warn \o <<LogRecord("INFO", api_remaining, api_max, treset)>>)

\* Mutant: the low-quota threshold is inclusive (api_remaining <= 10).
gitbulk_check_api_limit_inclusive(g) ==
    LET s == IF g = None THEN session(None) ELSE g
        api_limits == rate_limiting(s)
        api_remaining == api_limits[1]
        api_max == api_limits[2]
        treset == utcfromtimestamp(rate_limiting_resettime(s))
    IN  IF api_remaining = 0
        THEN Raised("ConnectionRefusedError", <<api_remaining, api_max, treset>>)
        ELSE IF api_remaining <= 10
        THEN Returned(None, <<LogRecord("WARNING", api_remaining, api_max, treset)>>)
        ELSE Returned(None, <<LogRecord("INFO", api_remaining, api_max, treset)>>)

\* Mutant: the guard remembers an earlier exhaustion of the session and keeps
\* failing after the quota is back.
gitbulk_check_api_limit_latched(g) ==
    LET s == IF g = None THEN session(None) ELSE g
        api_limits == rate_limiting(s)
        api_remaining == api_limits[1]
        api_max == api_limits[2]
        treset == utcfromtimestamp(rate_limiting_resettime(s))
    IN  IF api_remaining = 0 \/ s \in failed
        THEN Raised("ConnectionRefusedError", <<api_remaining, api_max, treset>>)
        ELSE IF api_remaining < 10
        THEN Returned(None, <<LogRecord("WARNING", api_remaining, api_max, treset)>>)
        ELSE Returned(None, <<LogRecord("INFO", api_remaining, api_max, treset)>>)

\* gitbulk.base.check_api_limit
gitbulk_check_api_limit(g) ==
    LET s == IF g = None THEN session(None) ELSE g
        api_limits == rate_limiting(s)
        api_remaining == api_limits[1]
        api_max == api_limits[2]
        treset == utcfromtimestamp(rate_limiting_resettime(s))
    IN  IF api_remaining = 0
        THEN Raised("ConnectionRefusedError", <<api_remaining, api_max, treset>>)
        ELSE IF api_remaining < 10
        THEN Returned(None, <<LogRecord("WARNING", api_remaining, api_max, treset)>>)
        ELSE Returned(None, <<LogRecord("INFO", api_remaining, api_max, treset)>>)

\* Mutant: the branch for an ample quota logs nothing.
pygithubutils_check_api_limit_silent(g) ==
    LET s == IF g = None THEN github_session(None) ELSE g
        ok == "True"
        api_limits == rate_limiting(s)
        api_remaining == api_limits[1]
        api_max == api_limits[2]
        treset == utcfromtimestamp(rate_limiting_resettime(s))
    IN  IF api_remaining = 0
        THEN Raised("ConnectionRefusedError", <<api_remaining, api_max, treset>>)
        ELSE IF api_remaining < 10
        THEN Returned(ok, <<LogRecord("WARNING", api_remaining, api_max, treset)>>)
        ELSE Returned(ok, <<>>)

\* Mutant: the low-quota threshold is inclusive (api_remaining <= 10).
pygithubutils_check_api_limit_inclusive(g) ==
    LET s == IF g = None THEN github_session(None) ELSE g
        ok == "True"
        api_limits == rate_limiting(s)
        api_remaining == api_limits[1]
        api_max == api_limits[2]
        treset == utcfromtimestamp(rate_limiting_resettime(s))
    IN  IF api_remaining = 0
        THEN Raised("ConnectionRefusedError", <<api_remaining, api_max, treset>>)
        ELSE IF api_remaining <= 10
        THEN Returned(ok, <<LogRecord("WARNING", api_remaining, api_max, treset)>>)
        ELSE Returned(ok, <<LogRecord("DEBUG", api_remaining, api_max, treset)>>)

\* pygithubutils.base.check_api_limit
pygithubutils_check_api_limit(g) ==
    LET s == IF g = None THEN github_session(None) ELSE g
        ok == "True"
        api_limits == rate_limiting(s)
        api_remaining == api_limits[1]
        api_max == api_limits[2]
        treset == utcfromtimestamp(rate_limiting_resettime(s))
    IN  IF api_remaining = 0
        THEN Raised("ConnectionRefusedError", <<api_remaining, api_max, treset>>)
        ELSE IF api_remaining < 10
        THEN Returned(ok, <<LogRecord("WARNING", api_remaining, api_max, treset)>>)
        ELSE Returned(ok, <<LogRecord("DEBUG", api_remaining, api_max, treset)>>)

Impls == {"gitbulk", "pygithubutils"}

\* The session a call of the guard uses: the one given, or a new
\* unauthenticated one.
SessionOf(impl, g) ==
    IF g # None THEN g
    ELSE IF impl = "gitbulk" THEN session(None) ELSE github_session(None)

GuardResult(impl, g) ==
    IF impl = "gitbulk" THEN gitbulk_check_api_limit(g)
    ELSE pygithubutils_check_api_limit(g)

\* The record of one call of the guard: the session it used, the quota that
\* session reported at the call, and whether the call before it was the same
\* guard on the same session over the same quota.
GuardCall(impl, g, out) ==
    [fn |-> "check_api_limit", id |-> 1 - last.id, impl |-> impl, g |-> g,
     sess |-> SessionOf(impl, g), before |-> quota[SessionOf(impl, g)],
     again |-> /\ last.fn = "check_api_limit"
               /\ last.impl = impl
               /\ last.sess = SessionOf(impl, g)
               /\ last.before = quota[SessionOf(impl, g)],
     out |-> out]

\* Mutant: the check itself costs one call of the quota.
CheckApiLimit_consuming(impl, g) ==
    LET out == GuardResult(impl, g)
        s == SessionOf(impl, g)
    IN  /\ last' = GuardCall(impl, g, out)
        /\ failed' = IF out.exc # "none" THEN failed \cup {s} ELSE failed
        /\ quota' = [quota EXCEPT ![s].remaining =
                        IF @ > 0 THEN @ - 1 ELSE @]

\* One call of check_api_limit by a caller: the guard only reads the quota.
CheckApiLimit(impl, g) ==
    LET out == GuardResult(impl, g)
        s == SessionOf(impl, g)
    IN  /\ last' = GuardCall(impl, g, out)
        /\ failed' = IF out.exc # "none" THEN failed \cup {s} ELSE failed
        /\ UNCHANGED quota

\* ------------------------------------------------- the remote service
\* The remote counts one API call of the account against its quota.
Consume(s) ==
    /\ quota[s].remaining > 0
    /\ quota' = [quota EXCEPT ![s].remaining = @ - 1]
    /\ UNCHANGED <<last, failed>>

\* The rate-limit window of the account ends: the quota is back at the
\* maximum and a new reset time is reported.
Reset(s, t) ==
    /\ quota' = [quota EXCEPT ![s].remaining = quota[s].maximum,
                              ![s].resetTime = t]
    /\ UNCHANGED <<last, failed>>

MaxOf(s) == IF s = "anon" THEN AnonMax ELSE AuthMax

Init ==
    /\ quota \in [Sessions -> [remaining : 0 .. AuthMax, maximum : {AnonMax, AuthMax},
                               resetTime : ResetTimes]]
    /\ \A s \in Sessions : /\ quota[s].maximum = MaxOf(s)
                           /\ quota[s].remaining = quota[s].maximum
    /\ last = NoCall
    /\ failed = {}

DoCheckApiLimit == \E impl \in Impls, g \in Sessions \cup {None} : CheckApiLimit(impl, g)

DoConsume == \E s \in Sessions : Consume(s)

DoReset == \E s \in Sessions, t \in ResetTimes : Reset(s, t)

Next == DoCheckApiLimit \/ DoConsume \/ DoReset

Spec == Init /\ [][Next]_vars

\* ------------------------------------------------------------ lookups
\* Longest list of teams the remote returns.
MaxTeams == 2

Users == {"u1"}

\* What a remote call answers: it raises GithubException or it returns.
Answers == {"ok", GithubException}

OrgLists == UNION {[1 .. n -> OrgNames] : n \in 0 .. MaxOrgs}

TeamLists == UNION {[1 .. n -> TeamNames] : n \in 0 .. MaxTeams}

ApiRaised(exc, calls, logs) == [exc |-> exc, ret |-> None, calls |-> calls, logs |-> logs]

ApiReturned(ret, calls, logs) == [exc |-> "none", ret |-> ret, calls |-> calls, logs |-> logs]

\* sess.get_user() without a login: the handle of the authenticated user.
get_user(sess) == [kind |-> "AuthenticatedUser", sess |-> sess]

OrgHandle(orgs, i) == [kind |-> "Organization", login |-> orgs[i], index |-> i]

\* for o in orgs: if o.login == orgname: org = o; break
\* The index of the organization the loop stops at, 0 when it runs to the end.
RECURSIVE FindOrg(_, _, _)
FindOrg(orgs, orgname, i) ==
    IF i > Len(orgs) THEN 0
    ELSE IF orgs[i] = orgname THEN i
    ELSE FindOrg(orgs, orgname, i + 1)

\* gitbulk.base.connect.  optimize: the interpreter runs with -O, which
\* strips assert statements.  listing: what guser.get_orgs() answers.
connect(oauth, orgname, optimize, listing) ==
    LET sess == session(oauth)
        guser == get_user(sess)
    IN  IF Truthy(orgname)
        THEN IF ~optimize /\ guser.kind # "AuthenticatedUser"
             THEN ApiRaised("AssertionError", <<>>, <<>>)
             ELSE IF listing.raises
             THEN ApiRaised(GithubException, <<"get_orgs">>, <<>>)
             ELSE LET org == FindOrg(listing.orgs, orgname, 1)
                  IN  IF org = 0
                      THEN ApiRaised("ValueError", <<"get_orgs">>, <<>>)
                      ELSE ApiReturned(<<OrgHandle(listing.orgs, org), sess>>,
                                       <<"get_orgs">>, <<>>)
        ELSE IF ~optimize /\ guser.kind # "Organization"
             THEN ApiRaised("AssertionError", <<>>, <<>>)
             ELSE ApiReturned(<<guser, sess>>, <<>>, <<>>)

\* pygithubutils.base.connect_github
connect_github(oauth, orgname, optimize, listing) ==
    LET sess == github_session(oauth)
        guser == get_user(sess)
    IN  IF Truthy(orgname)
        THEN IF ~optimize /\ guser.kind # "AuthenticatedUser"
             THEN ApiRaised("AssertionError", <<>>, <<>>)
             ELSE IF listing.raises
             THEN ApiRaised(GithubException, <<"get_orgs">>, <<>>)
             ELSE LET org == FindOrg(listing.orgs, orgname, 1)
                  IN  IF org = 0
                      THEN ApiRaised("ValueError", <<"get_orgs">>, <<>>)
                      ELSE ApiReturned(<<OrgHandle(listing.orgs, org), sess>>,
                                       <<"get_orgs">>, <<>>)
        ELSE IF ~optimize /\ guser.kind # "Organization"
             THEN ApiRaised("AssertionError", <<>>, <<>>)
             ELSE ApiReturned(<<guser, sess>>, <<>>, <<>>)

InfoLog(text) == [level |-> "INFO", text |-> text]

\* Mutant: any repo the lookup returns counts, whatever its name.
repo_exists_anyName(user, repo_name, lookup) ==
    IF lookup.raises
    THEN ApiReturned(FALSE, <<"get_repo">>, <<InfoLog(GithubException)>>)
    ELSE ApiReturned(TRUE, <<"get_repo">>, <<>>)

\* gitbulk.base.repo_exists.  lookup: what user.get_repo(repo_name) answers.
repo_exists(user, repo_name, lookup) ==
    IF lookup.raises
    THEN ApiReturned(FALSE, <<"get_repo">>, <<InfoLog(GithubException)>>)
    ELSE IF lookup.name # ""
    THEN ApiReturned(TRUE, <<"get_repo">>, <<>>)
    ELSE ApiReturned(FALSE, <<"get_repo">>, <<>>)

Range(seq) == {seq[i] : i \in 1 .. Len(seq)}

\* gitbulk.base.team_exists.  listing: what user.get_teams() answers.
team_exists(user, team_name, listing) ==
    IF listing.raises
    THEN ApiReturned(FALSE, <<"get_teams">>, <<InfoLog(GithubException)>>)
    ELSE ApiReturned(team_name \in Range(listing.names), <<"get_teams">>, <<>>)

\* Mutant: the user lookup is tried before the organization lookup.
gitbulk_user_or_org_userFirst(g, user, remote) ==
    IF remote.search = GithubException
    THEN ApiRaised("ValueError", <<"search_users">>, <<>>)
    ELSE IF remote.usr # GithubException
    THEN ApiReturned([kind |-> "NamedUser", login |-> user],
                     <<"search_users", "get_user">>, <<>>)
    ELSE IF remote.org # GithubException
    THEN ApiReturned([kind |-> "Organization", login |-> user],
                     <<"search_users", "get_user", "get_organization">>, <<>>)
    ELSE ApiRaised(GithubException,
                   <<"search_users", "get_user", "get_organization">>, <<>>)

\* gitbulk.base.user_or_org.  remote: what each of the three remote calls
\* answers if it is made.
gitbulk_user_or_org(g, user, remote) ==
    IF remote.search = GithubException
    THEN ApiRaised("ValueError", <<"search_users">>, <<>>)
    ELSE IF remote.org # GithubException
    THEN ApiReturned([kind |-> "Organization", login |-> user],
                     <<"search_users", "get_organization">>, <<>>)
    ELSE IF remote.usr # GithubException
    THEN ApiReturned([kind |-> "NamedUser", login |-> user],
                     <<"search_users", "get_organization", "get_user">>, <<>>)
    ELSE ApiRaised(GithubException,
                   <<"search_users", "get_organization", "get_user">>, <<>>)

\* pygithubutils.base.user_or_org
pygithubutils_user_or_org(g, user, remote) ==
    IF remote.search = GithubException
    THEN ApiRaised("ValueError", <<"search_users">>, <<>>)
    ELSE IF remote.org # GithubException
    THEN ApiReturned([kind |-> "Organization", login |-> user],
                     <<"search_users", "get_organization">>, <<>>)
    ELSE IF remote.usr # GithubException
    THEN ApiReturned([kind |-> "NamedUser", login |-> user],
                     <<"search_users", "get_organization", "get_user">>, <<>>)
    ELSE ApiRaised(GithubException,
                   <<"search_users", "get_organization", "get_user">>, <<>>)

ApiCall(fn, impl, args, remote, out) ==
    [fn |-> fn, id |-> 1 - last.id, impl |-> impl, args |-> args,
     remote |-> remote, out |-> out]

\* One call of connect (gitbulk) or connect_github (pygithubutils).
Connect(impl, oauth, orgname, optimize, listing) ==
    /\ last' = ApiCall("connect", impl,
                       [oauth |-> oauth, orgname |-> orgname, optimize |-> optimize],
                       listing,
                       IF impl = "gitbulk"
                       THEN connect(oauth, orgname, optimize, listing)
                       ELSE connect_github(oauth, orgname, optimize, listing))
    /\ UNCHANGED <<quota, failed>>

RepoExists(user, repo_name, lookup) ==
    /\ last' = ApiCall("repo_exists", "gitbulk",
                       [user |-> user, repo_name |-> repo_name], lookup,
                       repo_exists(user, repo_name, lookup))
    /\ UNCHANGED <<quota, failed>>

TeamExists(user, team_name, listing) ==
    /\ last' = ApiCall("team_exists", "gitbulk",
                       [user |-> user, team_name |-> team_name], listing,
                       team_exists(user, team_name, listing))
    /\ UNCHANGED <<quota, failed>>

UserOrOrg(impl, g, user, remote) ==
    /\ last' = ApiCall("user_or_org", impl, [g |-> g, user |-> user], remote,
                       IF impl = "gitbulk"
                       THEN gitbulk_user_or_org(g, user, remote)
                       ELSE pygithubutils_user_or_org(g, user, remote))
    /\ UNCHANGED <<quota, failed>>

OrgAnswers ==
    {[raises |-> TRUE, orgs |-> <<>>]} \cup {[raises |-> FALSE, orgs |-> l] : l \in OrgLists}

RepoAnswers ==
    {[raises |-> TRUE, name |-> ""]} \cup {[raises |-> FALSE, name |-> n] : n \in RepoNames}

TeamAnswers ==
    {[raises |-> TRUE, names |-> <<>>]} \cup {[raises |-> FALSE, names |-> l] : l \in TeamLists}

DoConnect ==
    \E impl \in Impls, oauth \in {None, "token"}, orgname \in {None, ""} \cup OrgNames,
       optimize \in BOOLEAN, listing \in OrgAnswers :
        Connect(impl, oauth, orgname, optimize, listing)

DoRepoExists ==
    \E user \in Users, repo_name \in RepoNames \cup {"r2"}, lookup \in RepoAnswers :
        RepoExists(user, repo_name, lookup)

DoTeamExists ==
    \E user \in Users, team_name \in TeamNames, listing \in TeamAnswers :
        TeamExists(user, team_name, listing)

DoUserOrOrg ==
    \E impl \in Impls, g \in Sessions, user \in Users,
       remote \in [search : Answers, org : Answers, usr : Answers] :
        UserOrOrg(impl, g, user, remote)

NextLookup == DoConnect \/ DoRepoExists \/ DoTeamExists \/ DoUserOrOrg

SpecLookup == Init /\ [][NextLookup]_vars

\* ------------------------------------------------------------- claims
IsCheck == last.fn = "check_api_limit"

\* C1: whenever the quota reports remaining = 0, whatever maximum and
\* resetTime are, check_api_limit raises ConnectionRefusedError (its message
\* carrying remaining, maximum and the reset time) and does not return.
C1_ExhaustedRaises ==
    (IsCheck /\ last.before.remaining = 0) =>
        /\ last.out.exc = "ConnectionRefusedError"
        /\ last.out.msg = <<0, last.before.maximum,
                            utcfromtimestamp(last.before.resetTime)>>

C1_Witness ==
    /\ IsCheck
    /\ last.before.remaining = 0
    /\ last.before.maximum = AuthMax
    /\ last.out.exc = "ConnectionRefusedError"

\* C2: for 0 < remaining < 10 check_api_limit returns normally and emits
\* exactly one log record, at warning level, carrying remaining, maximum and
\* the reset time; no info/debug record is emitted.
C2_LowQuotaWarns ==
    (IsCheck /\ 0 < last.before.remaining /\ last.before.remaining < 10) =>
        /\ last.out.exc = "none"
        /\ Len(last.out.logs) = 1
        /\ last.out.logs[1].level = "WARNING"
        /\ last.out.logs[1].remaining = last.before.remaining
        /\ last.out.logs[1].maximum = last.before.maximum
        /\ last.out.logs[1].treset.day * 86400 + last.out.logs[1].treset.sec
               = last.before.resetTime

C2_Witness ==
    /\ IsCheck
    /\ last.before.remaining = 3
    /\ last.out.exc = "none"
    /\ last.out.logs[1].level = "WARNING"

\* C3: for remaining >= 10 check_api_limit returns normally and emits exactly
\* one log record, at info level (gitbulk) or debug level (pygithubutils),
\* and no warning.
C3_AmpleQuotaInfo ==
    (IsCheck /\ last.before.remaining >= 10) =>
        /\ last.out.exc = "none"
        /\ Len(last.out.logs) = 1
        /\ last.out.logs[1].level \in {"INFO", "DEBUG"}

C3_Witness ==
    /\ IsCheck
    /\ last.before.remaining = 10
    /\ last.out.exc = "none"
    /\ last.out.logs[1].level = "INFO"

\* C4 as stated: every call of check_api_limit, returning or failing, emits a
\* log record at warning or info level.
C4_AlwaysLogsWarningOrInfo ==
    IsCheck => \E i \in 1 .. Len(last.out.logs) :
                   last.out.logs[i].level \in {"WARNING", "INFO"}

\* C4 amended: a call of check_api_limit that returns normally emits exactly
\* one log record, at warning or info level in gitbulk and at warning or
\* debug level in pygithubutils; a call that fails with quota exhaustion
\* emits no log record.
C4_LogsWhenReturning ==
    IsCheck =>
        IF last.out.exc = "none"
        THEN /\ Len(last.out.logs) = 1
             /\ last.out.logs[1].level \in
                    (IF last.impl = "gitbulk" THEN {"WARNING", "INFO"}
                     ELSE {"WARNING", "DEBUG"})
        ELSE last.out.logs = <<>>

C4_Witness ==
    /\ IsCheck
    /\ last.impl = "pygithubutils"
    /\ last.out.exc = "none"
    /\ last.out.logs[1].level = "DEBUG"

\* C5: a call of check_api_limit changes no quota, and a call that follows a
\* call of the same guard on the same session over the same quota snapshot
\* has the same outcome (same failure, or same return with the same log).
C5_Idempotent ==
    [][(last'.id # last.id /\ last'.fn = "check_api_limit") =>
           /\ quota' = quota
           /\ last'.again => last'.out = last.out]_vars

C5_Witness ==
    /\ IsCheck
    /\ last.again
    /\ last.out.exc = "none"

\* C6: the outcome of a call is decided by the quota the session reports at
\* that call alone: it fails if and only if remaining is 0 then, also when an
\* earlier call on the session failed.
C6_Stateless ==
    IsCheck =>
        /\ last.out.exc \in {"none", "ConnectionRefusedError"}
        /\ last.out.exc = "ConnectionRefusedError" <=> last.before.remaining = 0

C6_Witness ==
    /\ IsCheck
    /\ last.sess \in failed
    /\ last.before.remaining > 0
    /\ last.out.exc = "none"

ConnectSession(impl, oauth) ==
    IF impl = "gitbulk" THEN session(oauth) ELSE github_session(oauth)

FirstMatch(orgs, orgname) ==
    LET m == {i \in 1 .. Len(orgs) : orgs[i] = orgname}
    IN  IF m = {} THEN 0 ELSE CHOOSE i \in m : \A j \in m : i <= j

\* C7 as stated: with orgname given and the organization listing answered,
\* connect returns the first organization whose login is orgname together
\* with the session, and raises ValueError when there is none; with orgname
\* not given it returns the authenticated user's handle with the session and
\* no assertion fails.
C7_ConnectReturnsHandle ==
    last.fn = "connect" =>
        LET sess == ConnectSession(last.impl, last.args.oauth)
            orgname == last.args.orgname
        IN  IF Truthy(orgname)
            THEN ~last.remote.raises =>
                   LET m == FirstMatch(last.remote.orgs, orgname)
                   IN  IF m = 0 THEN last.out.exc = "ValueError"
                       ELSE /\ last.out.exc = "none"
                            /\ last.out.ret[1].kind = "Organization"
                            /\ last.out.ret[1].login = orgname
                            /\ last.out.ret[1].index = m
                            /\ last.out.ret[2] = sess
            ELSE /\ last.out.exc = "none"
                 /\ last.out.ret[1].kind = "AuthenticatedUser"
                 /\ last.out.ret[2] = sess

\* C8: repo_exists and team_exists return a boolean and never raise on a
\* GithubException of the remote call: repo_exists is True exactly when the
\* lookup answers a repo with a non-empty name, team_exists exactly when the
\* listing answers and holds team_name.
C8_ExistsChecks ==
    /\ last.fn = "repo_exists" =>
           /\ last.out.exc = "none"
           /\ last.out.ret \in BOOLEAN
           /\ last.out.ret <=> (~last.remote.raises /\ last.remote.name # "")
    /\ last.fn = "team_exists" =>
           /\ last.out.exc = "none"
           /\ last.out.ret \in BOOLEAN
           /\ last.out.ret <=>
                  /\ ~last.remote.raises
                  /\ \E i \in 1 .. Len(last.remote.names) :
                         last.remote.names[i] = last.args.team_name

C8_Witness ==
    /\ last.fn = "repo_exists"
    /\ ~last.remote.raises
    /\ last.remote.name = ""
    /\ last.out.ret = FALSE

\* C9: user_or_org calls the remote in the order user search, organization
\* lookup, user lookup: a failed search raises ValueError with no further
\* call; else the organization is returned when its lookup answers; the user
\* lookup is made only when the organization lookup raised, and its
\* GithubException reaches the caller.
C9_UserOrOrgOrder ==
    last.fn = "user_or_org" =>
        LET r == last.remote
            o == last.out
        IN  IF r.search = GithubException
            THEN o.exc = "ValueError" /\ o.calls = <<"search_users">>
            ELSE IF r.org = "ok"
            THEN /\ o.exc = "none"
                 /\ o.ret.kind = "Organization"
                 /\ o.calls = <<"search_users", "get_organization">>
            ELSE /\ o.calls = <<"search_users", "get_organization", "get_user">>
                 /\ IF r.usr = GithubException
                    THEN o.exc = GithubException
                    ELSE o.exc = "none" /\ o.ret.kind = "NamedUser"

C9_Witness ==
    /\ last.fn = "user_or_org"
    /\ last.remote.search = "ok"
    /\ last.remote.org = GithubException
    /\ last.remote.usr = GithubException
    /\ last.out.exc = GithubException

\* C10: on every quota both implementations of the guard fail together or
\* return together, with the same message values, and warn on the same
\* quotas; they differ only in the level of the other log record (info in
\* gitbulk, debug in pygithubutils) and in the value returned (None in
\* gitbulk, True in pygithubutils).
C10_GuardsAgree ==
    \A g \in Sessions \cup {None} :
        LET a == gitbulk_check_api_limit(g)
            b == pygithubutils_check_api_limit(g)
        IN  /\ a.exc = b.exc
            /\ a.msg = b.msg
            /\ a.exc = "none" =>
                   /\ Len(a.logs) = 1 /\ Len(b.logs) = 1
                   /\ a.logs[1].level = "WARNING" <=> b.logs[1].level = "WARNING"
                   /\ a.logs[1].level # "WARNING" =>
                          a.logs[1].level = "INFO" /\ b.logs[1].level = "DEBUG"
                   /\ [a.logs[1] EXCEPT !.level = ""] = [b.logs[1] EXCEPT !.level = ""]
                   /\ a.ret = None
                   /\ b.ret = "True"

C10_Witness ==
    /\ IsCheck
    /\ quota["auth"].remaining >= 10
    /\ quota["anon"].remaining = 0
    /\ gitbulk_check_api_limit("auth").logs[1].level = "INFO"
    /\ pygithubutils_check_api_limit("auth").logs[1].level = "DEBUG"

====
